---------------------------- MODULE Spec2Model ----------------------------
(***************************************************************************)
(* A model of resistags.py: the colour-band encoder for values below 10    *)
(* ohms (get_subohm_colors), the value formatter (format_value), the       *)
(* template metrics extractor (extract_template_metrics and the unused     *)
(* parse_path_bounding_box) and the sticker generator (generate_stickers). *)
(*                                                                         *)
(* Numbers.  A resistance is an integer count of milliohms (0.33 ohm is    *)
(* 330, 1.5 ohm is 1500, 4.7 kohm is 4700000), so "ohms < 10" reads        *)
(* "ohms < 10000".  The inputs never lie exactly half way between two      *)
(* centiohms: there Python rounds the binary floating-point product, whose *)
(* side of the half exact arithmetic does not give.  Everywhere else the   *)
(* exact rounding below equals int(round(ohms * 100)).                     *)
(* A template coordinate is a rational <<n, d>> in lowest terms, d > 0.    *)
(* A text is a sequence of one-character strings; "Ohm" stands for the     *)
(* omega sign and "+-" for the plus-minus sign.                            *)
(***************************************************************************)
EXTENDS Integers, Sequences, FiniteSets, TLC

VARIABLES
    \* generate_stickers
    pc,              \* "start", "loop", "done" or "error"
    template,        \* the parsed template document
    resistance_ohms, \* the list of values, in milliohms
    tolerance,       \* the tolerance, in percent
    layer,           \* the working layer of the tree being rewritten
    locals,          \* the local variables of generate_stickers
    idx,             \* the loop index
    written,         \* whether the output file has been opened and written
    \* one call of get_subohm_colors
    e_pc, e_ohms, e_tolerance, e_num_bands, e_centiohms, e_result,
    \* one call of the path measurements
    p_pc, p_d, p_metrics, p_bbox

vars == <<pc, template, resistance_ohms, tolerance, layer, locals, idx, written,
          e_pc, e_ohms, e_tolerance, e_num_bands, e_centiohms, e_result,
          p_pc, p_d, p_metrics, p_bbox>>

gen_vars == <<pc, template, resistance_ohms, tolerance, layer, locals, idx, written>>
enc_vars == <<e_pc, e_ohms, e_tolerance, e_num_bands, e_centiohms, e_result>>
path_vars == <<p_pc, p_d, p_metrics, p_bbox>>

\* An exception leaving the function.
Raise == <<"raise">>

--------------------------------------------------------------------------
(* Program constants *)

COLS == 5
STICKER_W == 23
STICKER_H == 12
SPACING_X == STICKER_W + 3
SPACING_Y == STICKER_H + 3
MARGIN_LEFT == 0
MARGIN_TOP == 0

COLOR_HEX ==
    [c \in {"black", "brown", "red", "orange", "yellow", "green", "blue",
            "violet", "grey", "white", "gold", "silver"} |->
        CASE c = "black" -> "000000"
          [] c = "brown" -> "784421"
          [] c = "red" -> "ff0000"
          [] c = "orange" -> "ff6600"
          [] c = "yellow" -> "ffff00"
          [] c = "green" -> "00c400"
          [] c = "blue" -> "0055d4"
          [] c = "violet" -> "8f37c8"
          [] c = "grey" -> "828282"
          [] c = "white" -> "dbdbdb"
          [] c = "gold" -> "decd87"
          [] c = "silver" -> "c0c0c0"]

\* COLOR_HEX.get(c.lower(), "000000")
HexOf(c) == IF c \in DOMAIN COLOR_HEX THEN COLOR_HEX[c] ELSE "000000"

--------------------------------------------------------------------------
(* Bounds of the model *)

\* get_subohm_colors is called on 1 .. MaxMilli milliohms.
MaxMilli == 10030
\* generate_stickers is called on lists of 0 .. MaxN values.
MaxN == 7
\* A boundary path has at most MaxCmds commands after its first move.
MaxCmds == 3

--------------------------------------------------------------------------
(* Arithmetic helpers *)

RECURSIVE Pow10(_)
Pow10(k) == IF k = 0 THEN 1 ELSE 10 * Pow10(k - 1)

Abs(n) == IF n < 0 THEN -n ELSE n

RECURSIVE GCD(_, _)
GCD(a, b) == IF b = 0 THEN Abs(a) ELSE GCD(b, a % b)

\* The decimal digits of n >= 0, most significant first: [int(d) for d in str(n)].
RECURSIVE Digits(_)
Digits(n) == IF n < 10 THEN <<n>> ELSE Append(Digits(n \div 10), n % 10)

\* round(num / den) for num >= 0, den > 0: to the nearest integer, a half to
\* the even one.
RoundDiv(num, den) ==
    LET q == num \div den
        r == num % den
    IN  IF 2 * r > den \/ (2 * r = den /\ q % 2 = 1) THEN q + 1 ELSE q

--------------------------------------------------------------------------
(* get_subohm_colors *)

digit_colors == <<"black", "brown", "red", "orange", "yellow", "green",
                  "blue", "violet", "grey", "white">>

\* tolerance_colors.get(tolerance, "brown")
ToleranceColor(tol) ==
    CASE tol = 1 -> "brown"
      [] tol = 5 -> "gold"
      [] tol = 10 -> "silver"
      [] OTHER -> "brown"

\* int(round(ohms * 100))
Centiohms(ohms) ==
    IF ohms >= 0 THEN RoundDiv(ohms, 10) ELSE -RoundDiv(-ohms, 10)

\* "grey" for a value with a fractional part that is not below 1 ohm.
MultiplierAlwaysSilver(ohms) == "silver"
Multiplier(ohms) ==
    IF ohms < 1000 THEN "silver"
    ELSE IF ohms % 1000 = 0 THEN "silver"
    ELSE "grey"

\* while len(digits) < n: digits.insert(0, 0)
RECURSIVE PadDigits(_, _)
PadDigits(digits, n) ==
    IF Len(digits) < n THEN PadDigits(<<0>> \o digits, n) ELSE digits

\* Resistor.with_resistance(value, tolerance, num_bands).get_colors() of the
\* resistors library: num_bands - 2 significant digits, a power-of-ten
\* multiplier and the tolerance colour; anything else is rejected.
LibraryColors(value, tol, num_bands) ==
    LET n == num_bands - 2
        ds == Digits(value)
        exponent == Len(ds) - n
        sig == IF exponent >= 0 THEN SubSeq(ds, 1, n)
               ELSE ds \o [i \in 1..(-exponent) |-> 0]
        rest == IF exponent >= 0 THEN SubSeq(ds, n + 1, Len(ds)) ELSE <<>>
        mult == CASE exponent = -1 -> "gold"
                  [] exponent = -2 -> "silver"
                  [] OTHER -> digit_colors[exponent + 1]
    IN  IF tol \notin {1, 5, 10} \/ value < 1 \/ exponent < -2 \/ exponent > 9
           \/ \E i \in 1..Len(rest) : rest[i] # 0
        THEN Raise
        ELSE [i \in 1..n |-> digit_colors[sig[i] + 1]]
             \o <<mult, ToleranceColor(tol)>>

\* The bands of the branch "if ohms < 10", given centiohms.
SubohmBands(ohms, centiohms, tol, num_bands) ==
    IF num_bands = 5
    THEN LET digits == PadDigits(Digits(centiohms), 3)
         IN  <<digit_colors[digits[1] + 1], digit_colors[digits[2] + 1],
               digit_colors[digits[3] + 1], Multiplier(ohms), ToleranceColor(tol)>>
    ELSE LET digits == PadDigits(Digits(centiohms), 2)
         IN  <<digit_colors[digits[1] + 1], digit_colors[digits[2] + 1],
               Multiplier(ohms), ToleranceColor(tol)>>

\* A negative centiohms has "-" as its first character, and int("-") raises
\* ValueError.
get_subohm_colors(ohms, tol, num_bands) ==
    IF ohms < 10000
    THEN IF Centiohms(ohms) < 0 THEN Raise
         ELSE SubohmBands(ohms, Centiohms(ohms), tol, num_bands)
    ELSE LibraryColors(ohms \div 1000, tol, num_bands)


--------------------------------------------------------------------------
(* One call of get_subohm_colors *)

SupportedTolerances == {1, 5, 10}
\* 2 percent is a tolerance the lookup table does not hold.
Tolerances == SupportedTolerances \cup {2}

\* 1 .. MaxMilli milliohms off the half-way points, and -1 ohm.
EncodeInputs == {m \in 1..MaxMilli : m % 10 # 5} \cup {-1000}

InitEncode ==
    /\ e_pc = "call"
    /\ e_ohms \in EncodeInputs
    /\ e_tolerance \in Tolerances
    /\ e_num_bands \in {4, 5}
    /\ e_centiohms = 0
    /\ e_result = <<>>
    /\ pc = "idle" /\ template = <<>> /\ resistance_ohms = <<>> /\ tolerance = 0
    /\ layer = <<>> /\ locals = <<>> /\ idx = 0 /\ written = <<>>
    /\ p_pc = "idle" /\ p_d = <<>> /\ p_metrics = <<>> /\ p_bbox = <<>>

\* The call returns a colour sequence.
EncodeReturns ==
    /\ e_pc = "call"
    /\ get_subohm_colors(e_ohms, e_tolerance, e_num_bands) # Raise
    /\ e_result' = get_subohm_colors(e_ohms, e_tolerance, e_num_bands)
    /\ e_centiohms' = IF e_ohms < 10000 THEN Centiohms(e_ohms) ELSE 0
    /\ e_pc' = "returned"
    /\ UNCHANGED <<e_ohms, e_tolerance, e_num_bands>>
    /\ UNCHANGED gen_vars /\ UNCHANGED path_vars

\* The call ends with an exception.
EncodeRaises ==
    /\ e_pc = "call"
    /\ get_subohm_colors(e_ohms, e_tolerance, e_num_bands) = Raise
    /\ e_result' = Raise
    /\ e_centiohms' = IF e_ohms < 10000 THEN Centiohms(e_ohms) ELSE 0
    /\ e_pc' = "raised"
    /\ UNCHANGED <<e_ohms, e_tolerance, e_num_bands>>
    /\ UNCHANGED gen_vars /\ UNCHANGED path_vars

NextEncode == EncodeReturns \/ EncodeRaises

SpecEncode == InitEncode /\ [][NextEncode]_vars

--------------------------------------------------------------------------
(* The boundary path: extract_template_metrics and parse_path_bounding_box *)

(* A path is the sequence of its commands, [cmd, args], the arguments being  *)
(* integers: "M 2,3 V 8 h 10" is <<M <<2,3>>, V <<8>>, h <<10>>>>.  The      *)
(* command letter and its arguments are separated by white space and the two *)
(* coordinates of a pair by a comma, as Inkscape writes them.                *)

Cmd(c, a) == [cmd |-> c, args |-> a]

RECURSIVE SeqMin(_)
SeqMin(s) ==
    IF Len(s) = 1 THEN s[1]
    ELSE LET m == SeqMin(Tail(s)) IN IF s[1] < m THEN s[1] ELSE m

RECURSIVE SeqMax(_)
SeqMax(s) ==
    IF Len(s) = 1 THEN s[1]
    ELSE LET m == SeqMax(Tail(s)) IN IF s[1] > m THEN s[1] ELSE m

\* re.findall(r'H\s+([\d.]+)', d) for c = "H": the first argument of every
\* command c that is an unsigned number.
RECURSIVE SelectArgs(_, _)
SelectArgs(d, c) ==
    IF d = <<>> THEN <<>>
    ELSE IF d[1].cmd = c /\ Len(d[1].args) >= 1 /\ d[1].args[1] >= 0
         THEN <<d[1].args[1]>> \o SelectArgs(Tail(d), c)
         ELSE SelectArgs(Tail(d), c)

\* re.search(r'M\s+([\d.]+),([\d.]+)', d): the first absolute move with two
\* unsigned coordinates; <<>> when there is none.
RECURSIVE MMatch(_)
MMatch(d) ==
    IF d = <<>> THEN <<>>
    ELSE IF d[1].cmd = "M" /\ Len(d[1].args) >= 2
            /\ d[1].args[1] >= 0 /\ d[1].args[2] >= 0
         THEN <<d[1].args[1], d[1].args[2]>>
         ELSE MMatch(Tail(d))

\* The measurements extract_template_metrics takes from the path of a t_tag
\* element: <<[min_x, min_y, w, h]>>, or <<>> when the pattern does not match
\* and no metric is set.
ExtractTagBox(d) ==
    LET m == MMatch(d)
        h_coords == SelectArgs(d, "H")
        v_coords == SelectArgs(d, "V")
        all_x == <<m[1]>> \o h_coords
        all_y == <<m[2]>> \o v_coords
    IN  IF m # <<>> /\ h_coords # <<>> /\ v_coords # <<>>
        THEN <<[min_x |-> SeqMin(all_x), min_y |-> SeqMin(all_y),
                w |-> SeqMax(all_x) - SeqMin(all_x),
                h |-> SeqMax(all_y) - SeqMin(all_y)]>>
        ELSE <<>>

\* The loop of parse_path_bounding_box over the commands: the current point
\* and the x and y values collected.  cmd.upper() is compared first, so a
\* lower-case command takes the branch of its upper-case form and the
\* branches for 'h' and 'v' are never taken.
RECURSIVE ParseLoop(_, _)
ParseLoop(d, st) ==
    IF d = <<>> THEN st
    ELSE LET c == d[1].cmd
             numbers == d[1].args
             add(x, y) == [current_x |-> x, current_y |-> y,
                           x_vals |-> Append(st.x_vals, x),
                           y_vals |-> Append(st.y_vals, y)]
             nxt == CASE c \in {"M", "m", "L", "l"} ->
                            IF Len(numbers) >= 2 THEN add(numbers[1], numbers[2])
                            ELSE st
                      [] c \in {"H", "h"} ->
                            IF numbers # <<>> THEN add(numbers[1], st.current_y)
                            ELSE st
                      [] c \in {"V", "v"} ->
                            IF numbers # <<>> THEN add(st.current_x, numbers[1])
                            ELSE st
                      [] OTHER -> st
         IN  ParseLoop(Tail(d), nxt)

parse_path_bounding_box(d) ==
    LET st == ParseLoop(d, [current_x |-> 0, current_y |-> 0,
                            x_vals |-> <<>>, y_vals |-> <<>>])
    IN  IF st.x_vals = <<>> THEN <<0, 0, 0, 0>>
        ELSE <<SeqMin(st.x_vals), SeqMin(st.y_vals),
               SeqMax(st.x_vals) - SeqMin(st.x_vals),
               SeqMax(st.y_vals) - SeqMin(st.y_vals)>>

(* One measurement of a boundary path *)

FirstCmds == {Cmd(c, <<x, 2>>) : c \in {"M", "m"}, x \in {1, 2}}
RestCmds ==
    {Cmd(c, <<a>>) : c \in {"H", "V"}, a \in {0, 4}}
    \cup {Cmd(c, <<a>>) : c \in {"h", "v"}, a \in {-1, 3}}
    \cup {Cmd(c, a) : c \in {"L", "l"}, a \in {<<5, 1>>, <<1, 5>>}}
Paths ==
    UNION {{<<f>> \o r : f \in FirstCmds, r \in [1..n -> RestCmds]} : n \in 0..MaxCmds}

InitPath ==
    /\ p_pc = "call"
    /\ p_d \in Paths
    /\ p_metrics = <<>>
    /\ p_bbox = <<>>
    /\ pc = "idle" /\ template = <<>> /\ resistance_ohms = <<>> /\ tolerance = 0
    /\ layer = <<>> /\ locals = <<>> /\ idx = 0 /\ written = <<>>
    /\ e_pc = "idle" /\ e_ohms = 0 /\ e_tolerance = 0 /\ e_num_bands = 0
    /\ e_centiohms = 0 /\ e_result = <<>>

\* extract_template_metrics reads the path of the t_tag element.
ExtractMetrics ==
    /\ p_pc = "call"
    /\ p_metrics' = ExtractTagBox(p_d)
    /\ p_pc' = "extracted"
    /\ UNCHANGED <<p_d, p_bbox>>
    /\ UNCHANGED gen_vars /\ UNCHANGED enc_vars

\* parse_path_bounding_box is called on the same path.
ParseBoundingBox ==
    /\ p_pc = "extracted"
    /\ p_bbox' = parse_path_bounding_box(p_d)
    /\ p_pc' = "parsed"
    /\ UNCHANGED <<p_d, p_metrics>>
    /\ UNCHANGED gen_vars /\ UNCHANGED enc_vars

NextPath == ExtractMetrics \/ ParseBoundingBox

SpecPath == InitPath /\ [][NextPath]_vars

--------------------------------------------------------------------------
(* Rational numbers <<n, d>>, d > 0, in lowest terms *)

Rat(n, d) == LET g == GCD(n, d) IN <<n \div g, d \div g>>
RatInt(k) == <<k, 1>>
RatAdd(a, b) == Rat(a[1] * b[2] + b[1] * a[2], a[2] * b[2])
\* Reduced crosswise first, so that the products stay small.
RatMul(a, b) ==
    LET g1 == GCD(a[1], b[2])
        g2 == GCD(b[1], a[2])
    IN  IF a[1] = 0 \/ b[1] = 0 THEN <<0, 1>>
        ELSE <<(a[1] \div g1) * (b[1] \div g2), (a[2] \div g2) * (b[2] \div g1)>>
\* a / b for b > 0.
RatDiv(a, b) == RatMul(a, <<b[2], b[1]>>)

\* The number k - r for an integer k, as a whole part and a fraction in
\* [0, 1): [whole, frac].
IntMinusRat(k, r) ==
    LET fl == r[1] \div r[2]
        rem == r[1] % r[2]
    IN  IF rem = 0 THEN [whole |-> k - fl, frac |-> <<0, 1>>]
        ELSE [whole |-> k - fl - 1, frac |-> <<r[2] - rem, r[2]>>]

--------------------------------------------------------------------------
(* Texts and format_value *)

DigitChars == <<"0", "1", "2", "3", "4", "5", "6", "7", "8", "9">>
OMEGA == "Ohm"
PLUSMINUS == "+-"
Whitespace == {" ", "\n", "\t"}

\* str(n) for an integer n >= 0.
NumText(n) == [i \in 1..Len(Digits(n)) |-> DigitChars[Digits(n)[i] + 1]]

RECURSIVE LStrip(_)
LStrip(t) == IF t # <<>> /\ t[1] \in Whitespace THEN LStrip(Tail(t)) ELSE t

RECURSIVE RStrip(_)
RStrip(t) ==
    IF t # <<>> /\ t[Len(t)] \in Whitespace THEN RStrip(SubSeq(t, 1, Len(t) - 1))
    ELSE t

\* str.strip()
Strip(t) == RStrip(LStrip(t))

\* str.replace(".0 ", " ")
RECURSIVE ReplaceDotZero(_)
ReplaceDotZero(t) ==
    IF Len(t) < 3 THEN t
    ELSE IF SubSeq(t, 1, 3) = <<".", "0", " ">>
         THEN <<" ">> \o ReplaceDotZero(SubSeq(t, 4, Len(t)))
         ELSE <<t[1]>> \o ReplaceDotZero(Tail(t))

\* f"{num / den:.1f}" for num >= 0 and den a multiple of 10.
OneDecimal(num, den) ==
    LET tenths == RoundDiv(num, den \div 10)
    IN  NumText(tenths \div 10) \o <<".", DigitChars[(tenths % 10) + 1]>>

RECURSIVE DropTrailingZeros(_)
DropTrailingZeros(ds) ==
    IF Len(ds) > 1 /\ ds[Len(ds)] = 0 THEN DropTrailingZeros(SubSeq(ds, 1, Len(ds) - 1))
    ELSE ds

\* f"{ohms}" for the float ohms: the shortest decimal that reads back as it.
FloatRepr(ohms) ==
    LET a == Abs(ohms)
        frac == DropTrailingZeros(PadDigits(Digits(a % 1000), 3))
    IN  (IF ohms < 0 THEN <<"-">> ELSE <<>>)
        \o NumText(a \div 1000) \o <<".">>
        \o [i \in 1..Len(frac) |-> DigitChars[frac[i] + 1]]

format_value(ohms) ==
    IF ohms >= 1000000000
    THEN IF ohms = 1000000000 THEN <<"1", " ", "M", OMEGA>>
         ELSE ReplaceDotZero(OneDecimal(ohms, 1000000000) \o <<" ", "M", OMEGA>>)
    ELSE IF ohms >= 1000000
    THEN IF ohms % 1000000 = 0 THEN NumText(ohms \div 1000000) \o <<" ", "k", OMEGA>>
         ELSE ReplaceDotZero(OneDecimal(ohms, 1000000) \o <<" ", "k", OMEGA>>)
    ELSE IF ohms < 1000 THEN FloatRepr(ohms) \o <<" ", OMEGA>>
    ELSE IF ohms % 1000 = 0 THEN NumText(ohms \div 1000) \o <<" ", OMEGA>>
    ELSE FloatRepr(ohms) \o <<" ", OMEGA>>

\* re.match(r"^[\d.]+$", text.strip()) for a text that is not None or empty.
IsNumericText(text) ==
    /\ text # <<>> /\ text[1] # <<>>
    /\ Strip(text[1]) # <<>>
    /\ \A i \in 1..Len(Strip(text[1])) :
          \E j \in 1..10 : Strip(text[1])[i] = DigitChars[j] \/ Strip(text[1])[i] = "."

--------------------------------------------------------------------------
(* Elements *)

(* An element is a record; an attribute, the text and the tail are <<>> when *)
(* absent (None) and <<value>> when present.                                 *)

El(tag) ==
    [tag |-> tag, label |-> <<>>, id |-> <<>>, style |-> <<>>, x |-> <<>>,
     width |-> <<>>, d |-> <<>>, transform |-> <<>>, text |-> <<>>, tail |-> <<>>,
     kids |-> <<>>]

\* get_label(el) == label
HasLabel(el, label) == el.label = <<label>>

\* Concatenation of a sequence of sequences.
RECURSIVE Flatten(_)
Flatten(ss) == IF ss = <<>> THEN <<>> ELSE ss[1] \o Flatten(Tail(ss))

\* list(el.iter()): the element and its descendants in document order.
RECURSIVE Iter(_)
Iter(el) == <<el>> \o Flatten([i \in 1..Len(el.kids) |-> Iter(el.kids[i])])

\* The first element of s that satisfies the test, as <<el>>, or <<>>.
RECURSIVE FirstWith(_, _, _)
FirstWith(s, label, tag) ==
    IF s = <<>> THEN <<>>
    ELSE IF HasLabel(s[1], label) /\ s[1].tag = tag THEN <<s[1]>>
    ELSE FirstWith(Tail(s), label, tag)

\* A style is a sequence of declarations <<property, kind, value>>, kind
\* "hex" for a value "#" followed by hexadecimal digits.  re.sub with count=1
\* rewrites the first "fill:#<hex>".
RECURSIVE set_rect_fill(_, _)
set_rect_fill(style_attr, hex_fill) ==
    IF style_attr = <<>> THEN <<>>
    ELSE IF style_attr[1][1] = "fill" /\ style_attr[1][2] = "hex"
         THEN <<<<"fill", "hex", hex_fill>>>> \o Tail(style_attr)
         ELSE <<style_attr[1]>> \o set_rect_fill(Tail(style_attr), hex_fill)

\* if node.get("style") is not None: node.set("style", set_rect_fill(...))
Refill(node, hex_fill) ==
    IF node.style # <<>>
    THEN [node EXCEPT !.style = <<set_rect_fill(node.style[1], hex_fill)>>]
    ELSE node

RECURSIVE deep_copy_element(_)
deep_copy_element(el) ==
    [tag |-> el.tag, label |-> el.label, id |-> el.id, style |-> el.style,
     x |-> el.x, width |-> el.width, d |-> el.d, transform |-> el.transform,
     text |-> el.text, tail |-> el.tail,
     kids |-> [i \in 1..Len(el.kids) |-> deep_copy_element(el.kids[i])]]

\* f"{prefix}_{i}_{old_id}"
NewId(prefix, i, old_id) == prefix \o "_" \o ToString(i) \o "_" \o old_id

RECURSIVE uniquify_ids(_, _)
uniquify_ids(parent, prefix) ==
    [parent EXCEPT !.kids =
        [i \in 1..Len(parent.kids) |->
            LET child == parent.kids[i]
                renamed == IF child.id # <<>> /\ child.id[1] # ""
                           THEN [child EXCEPT !.id = <<NewId(prefix, i - 1, child.id[1])>>]
                           ELSE child
            IN  uniquify_ids(renamed, prefix)]]

--------------------------------------------------------------------------
(* extract_template_metrics *)

\* The first loop: the first t_tag path whose d matches sets the four
\* template_ metrics; an element whose d does not match is passed over.
RECURSIVE FirstTagBox(_)
FirstTagBox(els) ==
    IF els = <<>> THEN <<>>
    ELSE IF HasLabel(els[1], "t_tag") /\ els[1].tag = "path"
            /\ ExtractTagBox(IF els[1].d = <<>> THEN <<>> ELSE els[1].d[1]) # <<>>
         THEN ExtractTagBox(els[1].d[1])
         ELSE FirstTagBox(Tail(els))

\* The first element of s with an x attribute, as <<x>>, or <<>>.
RECURSIVE FirstTspanX(_)
FirstTspanX(s) ==
    IF s = <<>> THEN <<>>
    ELSE IF s[1].tag = "tspan" /\ s[1].x # <<>> THEN s[1].x
    ELSE FirstTspanX(Tail(s))

NoMetrics == [k \in {} |-> <<0, 1>>]

\* float(el.get(name, "0"))
FloatOr0(attr) == IF attr = <<>> THEN <<0, 1>> ELSE attr[1]

extract_template_metrics(layer_el) ==
    LET els == Iter(layer_el)
        box == FirstTagBox(els)
        rect == FirstWith(els, "t_color_tolerance", "rect")
        text == FirstWith(els, "t_value", "text")
        m1 == IF box = <<>> THEN NoMetrics
              ELSE ("template_w" :> RatInt(box[1].w)) @@ ("template_h" :> RatInt(box[1].h))
                   @@ ("template_min_x" :> RatInt(box[1].min_x))
                   @@ ("template_min_y" :> RatInt(box[1].min_y))
        m2 == IF rect = <<>> THEN NoMetrics
              ELSE ("tolerance_rect_x" :> FloatOr0(rect[1].x))
                   @@ ("tolerance_rect_w" :> FloatOr0(rect[1].width))
                   @@ ("value_right_x" :> RatAdd(FloatOr0(rect[1].x), FloatOr0(rect[1].width)))
        tx == IF text = <<>> THEN <<>>
              ELSE IF FirstTspanX(Iter(text[1])) # <<>> THEN FirstTspanX(Iter(text[1]))
              ELSE text[1].x
        m3 == IF tx = <<>> THEN NoMetrics ELSE ("value_text_x" :> tx[1])
    IN  m1 @@ m2 @@ m3

\* metrics.get(key, default)
Get(metrics, key, default) == IF key \in DOMAIN metrics THEN metrics[key] ELSE default

--------------------------------------------------------------------------
(* The substitutions generate_stickers makes in a copied child *)

Truthy(text) == text # <<>> /\ text[1] # <<>>

\* for tspan in node.iter(tspan): if tspan.text: tspan.text = t; break
RECURSIVE SetFirstTspanText(_, _)
RECURSIVE SetFirstTspanTextIn(_, _)
SetFirstTspanText(el, t) ==
    IF el.tag = "tspan" /\ Truthy(el.text)
    THEN [el |-> [el EXCEPT !.text = <<t>>], done |-> TRUE]
    ELSE LET r == SetFirstTspanTextIn(el.kids, t)
         IN  [el |-> [el EXCEPT !.kids = r.kids], done |-> r.done]
SetFirstTspanTextIn(kids, t) ==
    IF kids = <<>> THEN [kids |-> <<>>, done |-> FALSE]
    ELSE LET r1 == SetFirstTspanText(kids[1], t)
         IN  IF r1.done THEN [kids |-> <<r1.el>> \o Tail(kids), done |-> TRUE]
             ELSE LET r2 == SetFirstTspanTextIn(Tail(kids), t)
                  IN  [kids |-> <<r1.el>> \o r2.kids, done |-> r2.done]

\* if "x" in el.attrib: el.set("x", str(value_right_x))
SetXIfPresent(el, vx) == IF el.x # <<>> THEN [el EXCEPT !.x = <<vx>>] ELSE el

\* The inner loop "for sub in tspan": it stops at the first numeric text.
RECURSIVE ValueInnerLoop(_, _, _)
ValueInnerLoop(subs, vt, vx) ==
    IF subs = <<>> THEN <<>>
    ELSE LET sub == SetXIfPresent(subs[1], vx)
         IN  IF IsNumericText(sub.text)
             THEN <<[sub EXCEPT !.text = <<vt>>,
                                !.tail = IF Truthy(sub.tail) THEN <<<<>>>> ELSE @]>>
                  \o Tail(subs)
             ELSE <<sub>> \o ValueInnerLoop(Tail(subs), vt, vx)

\* The outer loop "for tspan in node.iter(tspan)", in document order; it
\* stops at the first tspan whose own text is numeric.
RECURSIVE ValueOuterLoop(_, _, _)
RECURSIVE ValueOuterLoopIn(_, _, _)
ValueOuterLoop(el, vt, vx) ==
    IF el.tag = "tspan"
    THEN LET e1 == SetXIfPresent(el, vx)
         IN  IF IsNumericText(e1.text)
             THEN [el |-> [e1 EXCEPT !.text = <<vt>>, !.tail = <<<<>>>>], done |-> TRUE]
             ELSE LET e2 == [e1 EXCEPT !.kids = ValueInnerLoop(e1.kids, vt, vx)]
                      r == ValueOuterLoopIn(e2.kids, vt, vx)
                  IN  [el |-> [e2 EXCEPT !.kids = r.kids], done |-> r.done]
    ELSE LET r == ValueOuterLoopIn(el.kids, vt, vx)
         IN  [el |-> [el EXCEPT !.kids = r.kids], done |-> r.done]
ValueOuterLoopIn(kids, vt, vx) ==
    IF kids = <<>> THEN [kids |-> <<>>, done |-> FALSE]
    ELSE LET r1 == ValueOuterLoop(kids[1], vt, vx)
         IN  IF r1.done THEN [kids |-> <<r1.el>> \o Tail(kids), done |-> TRUE]
             ELSE LET r2 == ValueOuterLoopIn(Tail(kids), vt, vx)
                  IN  [kids |-> <<r1.el>> \o r2.kids, done |-> r2.done]

\* tolerance_text, the tolerance being a whole number of percent.
ToleranceText(tol) == <<PLUSMINUS>> \o NumText(tol)

\* The branch of the label chain that a copied child takes.  TRUE for the
\* child that "continue" drops: t_color_4 under 4 bands.
SkipsChild(node, hexes, num_bands) ==
    HasLabel(node, "t_color_4") /\ Len(hexes) > 3 /\ num_bands = 4

\* The index into hexes (from 0) of the fill of the tolerance band.
ToleranceIndexAlwaysLastOfFive(num_bands) == 4
ToleranceIndex(num_bands) == IF num_bands = 4 THEN 3 ELSE 4

Substitute(node, hexes, num_bands, tol, value_text, value_right_x) ==
    IF (HasLabel(node, "t_color_1") \/ HasLabel(node, "r_color_1")) /\ Len(hexes) > 0
    THEN Refill(node, hexes[1])
    ELSE IF HasLabel(node, "t_color_2") /\ Len(hexes) > 1 THEN Refill(node, hexes[2])
    ELSE IF HasLabel(node, "t_color_3") /\ Len(hexes) > 2 THEN Refill(node, hexes[3])
    ELSE IF HasLabel(node, "t_color_4") /\ Len(hexes) > 3 THEN Refill(node, hexes[4])
    ELSE IF HasLabel(node, "t_color_tolerance")
    THEN IF Len(hexes) > ToleranceIndex(num_bands)
         THEN Refill(node, hexes[ToleranceIndex(num_bands) + 1])
         ELSE node
    ELSE IF HasLabel(node, "t_tolerance")
    THEN SetFirstTspanText(node, ToleranceText(tol)).el
    ELSE IF HasLabel(node, "t_value")
    THEN ValueOuterLoop([node EXCEPT !.x = <<value_right_x>>], value_text, value_right_x).el
    ELSE node

\* The body of "for child in sticker_children": the nodes appended to the
\* group, in order.
RECURSIVE InstantiateChildren(_, _, _, _, _, _, _)
InstantiateChildren(children, hexes, num_bands, tol, value_text, value_right_x, prefix) ==
    IF children = <<>> THEN <<>>
    ELSE LET node == deep_copy_element(children[1])
             rest == InstantiateChildren(Tail(children), hexes, num_bands, tol,
                                         value_text, value_right_x, prefix)
         IN  IF SkipsChild(node, hexes, num_bands) THEN rest
             ELSE <<uniquify_ids(Substitute(node, hexes, num_bands, tol, value_text,
                                            value_right_x), prefix)>> \o rest

--------------------------------------------------------------------------
(* The templates and the value lists generate_stickers is run on *)

Stroke == <<"stroke", "hex", "000000">>

\* A band rectangle as Inkscape writes it: a style with a hexadecimal fill.
Band(label, id, fill) ==
    [El("rect") EXCEPT !.label = <<label>>, !.id = id,
                       !.style = <<<<<<"fill", "hex", fill>>, Stroke>>>>]

\* The boundary paths of the templates: a rectangle of absolute commands, one
\* of relative commands (the pattern of extract_template_metrics does not
\* match it), one of no width, and none (no t_tag element).
TagPaths ==
    { <<>>,
      << <<Cmd("M", <<2, 3>>), Cmd("V", <<9>>), Cmd("H", <<12>>), Cmd("V", <<3>>)>> >>,
      << <<Cmd("m", <<2, 3>>), Cmd("v", <<6>>), Cmd("h", <<10>>), Cmd("v", <<-6>>)>> >>,
      << <<Cmd("M", <<2, 3>>), Cmd("V", <<9>>), Cmd("H", <<2>>), Cmd("V", <<3>>)>> >> }

\* The children of the working layer.  ids: whether the elements carry id
\* attributes (pairwise distinct); rich: whether the template has the sizing
\* rectangle's geometry and a value text with nested text runs.
TemplateChildren(path, ids, rich) ==
    LET Id(name) == IF ids THEN <<name>> ELSE <<>>
        tag == IF path = <<>> THEN <<>>
               ELSE <<[El("path") EXCEPT !.label = <<"t_tag">>, !.id = Id("path1"),
                                         !.d = path,
                                         !.style = <<<<<<"fill", "word", "none">>, Stroke>>>>]>>
        tolRect == [Band("t_color_tolerance", Id("rect6"), "784421") EXCEPT
                       !.x = IF rich THEN <<RatInt(10)>> ELSE <<>>,
                       !.width = IF rich THEN <<<<3, 2>>>> ELSE <<>>]
        tolText == [El("text") EXCEPT !.label = <<"t_tolerance">>, !.id = Id("text1"),
                       !.kids = <<[El("tspan") EXCEPT !.id = Id("tspan1"),
                                       !.text = <<<<PLUSMINUS, "1">>>>]>>]
        valueFlat == [El("text") EXCEPT !.label = <<"t_value">>, !.id = Id("text2"),
                       !.x = <<RatInt(9)>>,
                       !.kids = <<[El("tspan") EXCEPT !.id = Id("tspan2"),
                                       !.x = <<RatInt(9)>>,
                                       !.text = <<<<"1", "0", "0">>>>,
                                       !.tail = <<<<"\n">>>>]>>]
        valueRich == [El("text") EXCEPT !.label = <<"t_value">>, !.id = Id("text2"),
                       !.x = <<RatInt(9)>>,
                       !.kids = <<[El("tspan") EXCEPT !.id = Id("tspan2"),
                                       !.x = <<RatInt(9)>>,
                                       !.kids = <<
                                          [El("tspan") EXCEPT !.id = Id("tspan3"),
                                              !.text = <<<<OMEGA>>>>, !.tail = <<<<" ">>>>],
                                          [El("tspan") EXCEPT !.id = Id("tspan4"),
                                              !.x = <<RatInt(9)>>,
                                              !.text = <<<<" ", "4", ".", "7">>>>,
                                              !.tail = <<<<" ">>>>],
                                          [El("tspan") EXCEPT !.id = Id("tspan5"),
                                              !.text = <<<<"1", "0">>>>]>>]>>]
        extra == [El("g") EXCEPT !.id = Id("g1"),
                       !.kids = <<[El("rect") EXCEPT !.id = Id("rect7")],
                                  [El("g") EXCEPT !.id = Id("g2"),
                                      !.kids = <<[El("path") EXCEPT !.id = Id("path2")]>>]>>]
    IN  tag \o << Band("t_color_1", Id("rect1"), "ff0000"),
                  Band("r_color_1", Id("rect2"), "ff0000"),
                  Band("t_color_2", Id("rect3"), "ff0000"),
                  Band("t_color_3", Id("rect4"), "000000"),
                  Band("t_color_4", Id("rect5"), "000000"),
                  tolRect, tolText,
                  IF rich THEN valueRich ELSE valueFlat,
                  extra >>

\* The template document: the root, its defs and the working layer.
TemplateDoc(layer_id, path, ids, rich) ==
    [El("svg") EXCEPT !.id = <<"svg1">>,
        !.kids = << [El("defs") EXCEPT !.id = <<"defs1">>],
                    [El("g") EXCEPT !.id = <<layer_id>>, !.label = <<"Layer 1">>,
                                    !.kids = TemplateChildren(path, ids, rich)] >>]

Templates ==
    {TemplateDoc("layer1", path, ids, rich) :
        path \in TagPaths, ids \in BOOLEAN, rich \in BOOLEAN}
    \cup {TemplateDoc("layer2", <<>>, TRUE, TRUE)}

\* The values, in milliohms: 0.1, 0.33, 0.004, 1, 1.5, 0.05, 1.58, 0.333,
\* 9.996, 10, 10.5, 220, 4700, 1 M, 1.5 M, 2200 and -1 ohm.
Values ==
    <<100, 330, 4, 1000, 1500, 50, 1580, 333, 9996, 10000, 10500, 220000,
      4700000, 1000000000, 1500000000, 2200000, -1000>>

\* The lists of 0 .. MaxN consecutive values, from any place of Values on and
\* around its end.
ValueLists ==
    {[k \in 1..n |-> Values[((off + k - 2) % Len(Values)) + 1]] :
        off \in 1..Len(Values), n \in 0..MaxN}

--------------------------------------------------------------------------
(* generate_stickers *)

\* The element "layer": the first in document order with id "layer1".
RECURSIVE FirstWithId(_, _)
FirstWithId(s, id) ==
    IF s = <<>> THEN <<>>
    ELSE IF s[1].id = <<id>> THEN <<s[1]>>
    ELSE FirstWithId(Tail(s), id)

NumBandsAlwaysFive(tol) == 5
NumBands(tol) == IF tol = 1 THEN 5 ELSE 4

\* The measurements read from the template, each with its fallback.
TemplateGeometry(layer_el) ==
    LET template_metrics == extract_template_metrics(layer_el)
    IN  [template_w |-> Get(template_metrics, "template_w", <<21, 1>>),
         template_h |-> Get(template_metrics, "template_h", <<23, 2>>),
         template_min_x |-> Get(template_metrics, "template_min_x",
                                Rat(84605201, 10000000)),
         template_min_y |-> Get(template_metrics, "template_min_y",
                                Rat(92461907, 10000000)),
         value_right_x |-> Get(template_metrics, "value_right_x",
                               Rat(281810686, 10000000))]

NoLocals ==
    [sticker_children |-> <<>>, template_w |-> <<0, 1>>, template_h |-> <<0, 1>>,
     template_min_x |-> <<0, 1>>, template_min_y |-> <<0, 1>>,
     value_right_x |-> <<0, 1>>, scale_x |-> <<0, 1>>, scale_y |-> <<0, 1>>,
     num_bands |-> 0, colors |-> <<>>, value_text |-> <<>>]

NotWritten == [opened |-> FALSE, header |-> <<>>, root |-> <<>>]

Init ==
    /\ pc = "start"
    /\ template \in Templates
    /\ resistance_ohms \in ValueLists
    /\ tolerance \in Tolerances
    /\ layer = <<>>
    /\ locals = NoLocals
    /\ idx = 0
    /\ written = NotWritten
    /\ e_pc = "idle" /\ e_ohms = 0 /\ e_tolerance = 0 /\ e_num_bands = 0
    /\ e_centiohms = 0 /\ e_result = <<>>
    /\ p_pc = "idle" /\ p_d = <<>> /\ p_metrics = <<>> /\ p_bbox = <<>>

\* The template has no element with id "layer1": SystemExit.
LayerNotFound ==
    /\ pc = "start"
    /\ FirstWithId(Iter(template), "layer1") = <<>>
    /\ pc' = "error"
    /\ UNCHANGED <<template, resistance_ohms, tolerance, layer, locals, idx, written>>
    /\ UNCHANGED enc_vars /\ UNCHANGED path_vars

\* layer.clear(); layer.set("id", "stickers"); set_label(layer, "Stickers")
ClearedLayer == [El("g") EXCEPT !.id = <<"stickers">>, !.label = <<"Stickers">>]

\* From the parse of the template to the start of the loop.
Setup ==
    /\ pc = "start"
    /\ FirstWithId(Iter(template), "layer1") # <<>>
    /\ LET layer_el == FirstWithId(Iter(template), "layer1")[1]
           g == TemplateGeometry(layer_el)
       IN  /\ g.template_w[1] # 0 /\ g.template_h[1] # 0
           /\ locals' = [NoLocals EXCEPT
                            !.sticker_children = layer_el.kids,
                            !.template_w = g.template_w,
                            !.template_h = g.template_h,
                            !.template_min_x = g.template_min_x,
                            !.template_min_y = g.template_min_y,
                            !.value_right_x = g.value_right_x,
                            !.scale_x = RatDiv(RatInt(STICKER_W), g.template_w),
                            !.scale_y = RatDiv(RatInt(STICKER_H), g.template_h),
                            !.num_bands = NumBands(tolerance)]
    /\ layer' = ClearedLayer
    /\ idx' = 0
    /\ pc' = "loop"
    /\ UNCHANGED <<template, resistance_ohms, tolerance, written>>
    /\ UNCHANGED enc_vars /\ UNCHANGED path_vars

\* STICKER_W / template_w or STICKER_H / template_h divides by zero, after
\* the layer was cleared.
ScaleDivisionByZero ==
    /\ pc = "start"
    /\ FirstWithId(Iter(template), "layer1") # <<>>
    /\ LET g == TemplateGeometry(FirstWithId(Iter(template), "layer1")[1])
       IN  g.template_w[1] = 0 \/ g.template_h[1] = 0
    /\ layer' = ClearedLayer
    /\ pc' = "error"
    /\ UNCHANGED <<template, resistance_ohms, tolerance, locals, idx, written>>
    /\ UNCHANGED enc_vars /\ UNCHANGED path_vars

\* The colours of the value at idx: get_subohm_colors below 10 ohms, the
\* library from 10 ohms up.
ColorsOf(ohms, tol, num_bands) ==
    IF ohms < 10000 THEN get_subohm_colors(ohms, tol, num_bands)
    ELSE LibraryColors(ohms \div 1000, tol, num_bands)

\* row, col, tx, ty of the sticker at index i.
GridXByRow(i) == MARGIN_LEFT + (i \div COLS) * SPACING_X
GridX(i) == MARGIN_LEFT + (i % COLS) * SPACING_X
GridY(i) == MARGIN_TOP + (i \div COLS) * SPACING_Y

\* The group of the sticker at index i.
Group(i, ohms, colors, value_text, l, tol) ==
    LET hexes == [j \in 1..Len(colors) |-> HexOf(colors[j])]
    IN  [El("g") EXCEPT
            !.id = <<"sticker_" \o ToString(i)>>,
            !.transform =
               <<[translate_x |-> IntMinusRat(GridX(i), RatMul(l.template_min_x, l.scale_x)),
                  translate_y |-> IntMinusRat(GridY(i), RatMul(l.template_min_y, l.scale_y)),
                  scale_x |-> l.scale_x, scale_y |-> l.scale_y]>>,
            !.label = <<value_text>>,
            !.kids = InstantiateChildren(l.sticker_children, hexes, l.num_bands, tol,
                                         value_text, l.value_right_x,
                                         "sticker" \o ToString(i))]

\* One pass of the loop over resistance_ohms.
Instantiate ==
    /\ pc = "loop"
    /\ idx < Len(resistance_ohms)
    /\ LET ohms == resistance_ohms[idx + 1]
           colors == ColorsOf(ohms, tolerance, locals.num_bands)
           value_text == Strip(format_value(ohms))
       IN  /\ colors # Raise
           /\ locals' = [locals EXCEPT !.colors = colors, !.value_text = value_text]
           /\ layer' = [layer EXCEPT !.kids =
                           Append(@, Group(idx, ohms, colors, value_text, locals, tolerance))]
    /\ idx' = idx + 1
    /\ UNCHANGED <<pc, template, resistance_ohms, tolerance, written>>
    /\ UNCHANGED enc_vars /\ UNCHANGED path_vars

\* The encoding of the value at idx raises: the exception leaves
\* generate_stickers.
InstantiateRaises ==
    /\ pc = "loop"
    /\ idx < Len(resistance_ohms)
    /\ ColorsOf(resistance_ohms[idx + 1], tolerance, locals.num_bands) = Raise
    /\ pc' = "error"
    /\ UNCHANGED <<template, resistance_ohms, tolerance, layer, locals, idx, written>>
    /\ UNCHANGED enc_vars /\ UNCHANGED path_vars

\* The tree with the working layer as it is now.
RECURSIVE WithLayer(_, _)
WithLayer(el, new_layer) ==
    IF el.id = <<"layer1">> THEN new_layer
    ELSE [el EXCEPT !.kids = [i \in 1..Len(el.kids) |-> WithLayer(el.kids[i], new_layer)]]

\* After the loop: the file is opened and the header and the tree written.
WriteOutputInsideLoop ==
    /\ pc = "loop"
    /\ written' = [opened |-> TRUE,
                   header |-> <<"<?xml version=\"1.0\" encoding=\"UTF-8\" standalone=\"no\"?>",
                                "<!-- Generated by resistags.py -->">>,
                   root |-> <<WithLayer(template, layer)>>]
    /\ pc' = IF idx = Len(resistance_ohms) THEN "done" ELSE "loop"
    /\ UNCHANGED <<template, resistance_ohms, tolerance, layer, locals, idx>>
    /\ UNCHANGED enc_vars /\ UNCHANGED path_vars
WriteOutput ==
    /\ pc = "loop"
    /\ idx = Len(resistance_ohms)
    /\ written' = [opened |-> TRUE,
                   header |-> <<"<?xml version=\"1.0\" encoding=\"UTF-8\" standalone=\"no\"?>",
                                "<!-- Generated by resistags.py -->">>,
                   root |-> <<WithLayer(template, layer)>>]
    /\ pc' = "done"
    /\ UNCHANGED <<template, resistance_ohms, tolerance, layer, locals, idx>>
    /\ UNCHANGED enc_vars /\ UNCHANGED path_vars

Next ==
    \/ LayerNotFound
    \/ Setup
    \/ ScaleDivisionByZero
    \/ Instantiate
    \/ InstantiateRaises
    \/ WriteOutput

Spec == Init /\ [][Next]_vars

--------------------------------------------------------------------------
(* Claims about get_subohm_colors, checked under SpecEncode *)

\* c cut to its leading k digits (c itself when it has at most k).
RECURSIVE LeadingPart(_, _)
LeadingPart(c, k) == IF c < Pow10(k) THEN c ELSE LeadingPart(c \div 10, k)

\* What C3 says the call returns for centiunit count c.
C3_Expected(ohms, c, tol, bands) ==
    LET k == bands - 2
        lead == LeadingPart(c, k)
    IN  [i \in 1..k |-> digit_colors[((lead \div Pow10(k - i)) % 10) + 1]]
        \o << IF ohms < 1000 \/ ohms % 1000 = 0 THEN "silver" ELSE "grey",
              CASE tol = 1 -> "brown" [] tol = 5 -> "gold" [] tol = 10 -> "silver" >>

AsGenerateCalls == e_num_bands = NumBands(e_tolerance)

\* C2: a tolerance outside {1, 5, 10} is rejected: no colour sequence is
\* returned for it, with brown or any other colour standing in.
C2_UnsupportedToleranceRejected ==
    (e_pc = "returned" /\ AsGenerateCalls) => e_tolerance \in SupportedTolerances

\* C7: a value with more significant digits than the bands can hold is
\* reported, never encoded from rounded or cut digits: a value below 10 that
\* is no whole number of centiohms, a value below 10 with three significant
\* centiohm digits under 4 bands, a value from 10 up with a fractional part.
C7_UnrepresentableValueReported ==
    (e_pc = "returned" /\ AsGenerateCalls /\ e_tolerance \in SupportedTolerances) =>
        IF e_ohms < 10000
        THEN /\ e_ohms % 10 = 0
             /\ e_num_bands = 4 => (e_centiohms < 100 \/ e_centiohms % 10 = 0)
        ELSE e_ohms % 1000 = 0

\* C10: for a fixed supported tolerance and band count, two different values
\* in 0 < ohms < 10 that are whole numbers of centiohms never get the same
\* colour sequence.
C10_SubohmInjective ==
    (e_pc = "returned" /\ 0 < e_ohms /\ e_ohms < 10000 /\ e_ohms % 10 = 0
        /\ e_tolerance \in SupportedTolerances /\ AsGenerateCalls) =>
       \A other \in 1..999 :
           10 * other # e_ohms =>
              get_subohm_colors(10 * other, e_tolerance, e_num_bands) # e_result

--------------------------------------------------------------------------
(* Claims about the boundary path, checked under SpecPath *)

\* The points visited when the current position is tracked through the
\* commands, a relative command's arguments added to the current position.
RECURSIVE Visited(_, _, _)
Visited(d, x, y) ==
    IF d = <<>> THEN <<>>
    ELSE LET c == d[1].cmd
             a == d[1].args
             nx == CASE c \in {"M", "L"} -> a[1]
                     [] c \in {"m", "l"} -> x + a[1]
                     [] c = "H" -> a[1]
                     [] c = "h" -> x + a[1]
                     [] OTHER -> x
             ny == CASE c \in {"M", "L"} -> a[2]
                     [] c \in {"m", "l"} -> y + a[2]
                     [] c = "V" -> a[1]
                     [] c = "v" -> y + a[1]
                     [] OTHER -> y
         IN  <<<<nx, ny>>>> \o Visited(Tail(d), nx, ny)

VisitedBox(d) ==
    LET pts == Visited(d, 0, 0)
        xs == [i \in 1..Len(pts) |-> pts[i][1]]
        ys == [i \in 1..Len(pts) |-> pts[i][2]]
    IN  [min_x |-> SeqMin(xs), min_y |-> SeqMin(ys),
         w |-> SeqMax(xs) - SeqMin(xs), h |-> SeqMax(ys) - SeqMin(ys)]

\* C8: for a boundary path of move, line, horizontal-line and vertical-line
\* commands, absolute or relative, the bounding box the metrics extractor
\* derives (and generation uses) is the bounding box of the points visited.
C8_BoundingBoxOfVisitedPoints ==
    (p_pc \in {"extracted", "parsed"} /\ p_metrics # <<>>) =>
        p_metrics[1] = VisitedBox(p_d)

\* The same of parse_path_bounding_box, which generation never calls.
C8_ParsedBoxOfVisitedPoints ==
    p_pc = "parsed" =>
        p_bbox = <<VisitedBox(p_d).min_x, VisitedBox(p_d).min_y,
                   VisitedBox(p_d).w, VisitedBox(p_d).h>>

--------------------------------------------------------------------------
(* Claims about generate_stickers, checked under Spec *)

N == Len(resistance_ohms)

\* The ids of the elements of a tree, in document order.
IdsOf(root) ==
    LET els == Iter(root)
    IN  Flatten([i \in 1..Len(els) |-> els[i].id])

Distinct(ids) == \A i, j \in 1..Len(ids) : i # j => ids[i] # ids[j]

\* Every element of the tree carries an id.
AllCarryIds(root) == \A i \in 1..Len(Iter(root)) : Iter(root)[i].id # <<>>

\* C1: after generate_stickers ran on N >= 1 values over a template whose
\* nodes carry pairwise-distinct ids, no id occurs on more than one node of
\* the output document.
C1_IdsUnique ==
    (pc = "done" /\ written.opened /\ N >= 1
        /\ AllCarryIds(template) /\ Distinct(IdsOf(template))) =>
       Distinct(IdsOf(written.root[1]))

\* C4: for a tolerance of 1, 5 or 10 generate_stickers derives 5 bands exactly
\* when the tolerance is 1 and 4 otherwise, and for every value 0 < ohms < 10
\* get_subohm_colors returns exactly that many colours: for the value just
\* instantiated, and (looked at once per tolerance, where the list is empty)
\* for every value the encoder is run on, those with a centiunit count of 0,
\* of one digit and of 1000 among them.
C4_BandCount ==
    (pc \in {"loop", "done"} /\ tolerance \in SupportedTolerances) =>
       /\ locals.num_bands \in {4, 5}
       /\ locals.num_bands = 5 <=> tolerance = 1
       /\ (idx > 0 /\ 0 < resistance_ohms[idx] /\ resistance_ohms[idx] < 10000) =>
             Len(locals.colors) = locals.num_bands
       /\ (N = 0 /\ pc = "loop") =>
             \A m \in EncodeInputs :
                 (0 < m /\ m < 10000) =>
                    Len(get_subohm_colors(m, tolerance, locals.num_bands))
                       = locals.num_bands

C4_Witness ==
    /\ pc = "loop" /\ idx > 0 /\ tolerance = 5
    /\ resistance_ohms[idx] = 9996
    /\ locals.colors = <<"brown", "black", "grey", "gold">>

\* Where the group's transform draws the template's top-left corner
\* (template_min_x, template_min_y): translate + scale * min, which is a whole
\* number of millimetres, as <<x, y>>; <<>> when it is not.
RenderedAt(g, l) ==
    LET t == g.transform[1]
        px == RatMul(l.template_min_x, l.scale_x)
        py == RatMul(l.template_min_y, l.scale_y)
        fx == IF t.translate_x.frac[1] = 0 THEN px
              ELSE <<t.translate_x.frac[1] + px[1], px[2]>>
        fy == IF t.translate_y.frac[1] = 0 THEN py
              ELSE <<t.translate_y.frac[1] + py[1], py[2]>>
    IN  IF /\ t.translate_x.frac[1] # 0 => t.translate_x.frac[2] = px[2]
           /\ t.translate_y.frac[1] # 0 => t.translate_y.frac[2] = py[2]
           /\ fx[1] % fx[2] = 0 /\ fy[1] % fy[2] = 0
        THEN <<t.translate_x.whole + fx[1] \div fx[2],
               t.translate_y.whole + fy[1] \div fy[2]>>
        ELSE <<>>

\* C5: for N values the working layer ends with exactly N children, the k-th
\* (from 0) the instance of the k-th value, placed at column k mod COLS and row
\* k div COLS: at x = MARGIN_LEFT + (k mod COLS) * SPACING_X and
\* y = MARGIN_TOP + (k div COLS) * SPACING_Y; two indices never share a cell.
C5_GridPlacement ==
    /\ pc = "loop" => Len(layer.kids) = idx
    /\ pc = "done" =>
          /\ Len(layer.kids) = N
          /\ FirstWithId(Iter(written.root[1]), "stickers") = <<layer>>
          /\ \A k \in 0..(N - 1) :
                LET g == layer.kids[k + 1]
                IN  /\ g.id = <<"sticker_" \o ToString(k)>>
                    /\ g.label = <<format_value(resistance_ohms[k + 1])>>
                    /\ RenderedAt(g, locals)
                          = <<MARGIN_LEFT + (k % COLS) * SPACING_X,
                              MARGIN_TOP + (k \div COLS) * SPACING_Y>>
          /\ \A j, k \in 0..(N - 1) :
                j # k => RenderedAt(layer.kids[j + 1], locals)
                            # RenderedAt(layer.kids[k + 1], locals)

C5_Witness ==
    /\ pc = "done" /\ N = 7 /\ Len(layer.kids) = 7
    /\ RenderedAt(layer.kids[7], locals) = <<26, 15>>

\* The fill of an element: the value of the first hexadecimal fill of its
\* style, as <<hex>>; <<>> without one.
RECURSIVE FirstFill(_)
FirstFill(style) ==
    IF style = <<>> THEN <<>>
    ELSE IF style[1][1] = "fill" /\ style[1][2] = "hex" THEN <<style[1][3]>>
    ELSE FirstFill(Tail(style))

FillOf(el) == IF el.style = <<>> THEN <<>> ELSE FirstFill(el.style[1])

\* The elements below a group, in document order.
Below(g) == Flatten([i \in 1..Len(g.kids) |-> Iter(g.kids[i])])

\* C6: under 4 bands no instance holds a t_color_4 node, recoloured or not,
\* and the t_color_tolerance node of every instance is filled with colors[3];
\* under 5 bands it is filled with colors[4]: in both cases with the last
\* colour of the sequence.
C6_ToleranceBand ==
    pc \in {"loop", "done"} =>
       \A k \in 1..Len(layer.kids) :
          LET els == Below(layer.kids[k])
              colors == ColorsOf(resistance_ohms[k], tolerance, locals.num_bands)
          IN  /\ locals.num_bands = 4 =>
                    \A i \in 1..Len(els) : ~HasLabel(els[i], "t_color_4")
              /\ \E i \in 1..Len(els) : HasLabel(els[i], "t_color_tolerance")
              /\ \A i \in 1..Len(els) :
                    HasLabel(els[i], "t_color_tolerance") =>
                       /\ locals.num_bands = 4 => FillOf(els[i]) = <<HexOf(colors[4])>>
                       /\ locals.num_bands = 5 => FillOf(els[i]) = <<HexOf(colors[5])>>
                       /\ FillOf(els[i]) = <<HexOf(colors[Len(colors)])>>

C6_Witness ==
    /\ pc = "done" /\ tolerance = 10 /\ locals.num_bands = 4 /\ N >= 2
    /\ \A i \in 1..Len(Below(layer.kids[1])) :
          ~HasLabel(Below(layer.kids[1])[i], "t_color_4")
    /\ \E i \in 1..Len(Below(layer.kids[1])) :
          /\ HasLabel(Below(layer.kids[1])[i], "t_color_tolerance")
          /\ FillOf(Below(layer.kids[1])[i]) = <<"c0c0c0">>

\* C9: the output is written only after all N instances were produced: when
\* the layer is missing, or the encoding of a value fails, the run ends with an
\* error and the output file has not been written.
C9_NoPartialOutput ==
    /\ pc = "error" => ~written.opened
    /\ written.opened =>
          /\ pc = "done" /\ idx = N
          /\ FirstWithId(Iter(template), "layer1") # <<>>
          /\ \A k \in 1..N : ColorsOf(resistance_ohms[k], tolerance, locals.num_bands) # Raise
          /\ Len(FirstWithId(Iter(written.root[1]), "stickers")[1].kids) = N

C9_Witness ==
    /\ pc = "error" /\ idx >= 2 /\ Len(layer.kids) = idx /\ idx < N
    /\ tolerance \in SupportedTolerances /\ resistance_ohms[idx + 1] = -1000
    /\ ~written.opened

==========================================================================
